---------------------------- MODULE Spec2Model ----------------------------
(***************************************************************************)
(* A model of bible_verse.py: the verse cache (BibleCache), fetch_verse,   *)
(* the bulk downloader download_all_verses and its thread,                 *)
(* pick_book_and_fetch, wrap_text, and BibleVerse.generate_image.          *)
(*                                                                         *)
(* Texts that are only stored and compared (verse texts) are tuples that   *)
(* name the verse they are the text of; the text that wrap_text splits is  *)
(* a sequence of characters.  A cache key "{book_id}_{chapter}_{verse}" is *)
(* the tuple <<book_id, chapter, verse>>: the decimal rendering of three   *)
(* integers joined by "_" is injective.                                    *)
(***************************************************************************)
EXTENDS Integers, Sequences, FiniteSets, TLC

(***************************************************************************)
(* Bounds of the model.                                                    *)
(***************************************************************************)
MaxTextLen == 6        \* characters of a text given to wrap_text
MaxWidth == 4          \* largest max_width given to wrap_text
MaxTranslations == 2   \* length of a list of translations to download
MaxCalls == 2          \* foreground calls (fetch_verse, pick_book_and_fetch,
                       \* generate_image) in a run
MaxRotation == 1       \* shuffles tried: rotations 0..MaxRotation, both ways
MaxSaves == 2        \* fetch_verse calls each user of the cache makes
MaxThreads == 2        \* Thread objects created in a run

(***************************************************************************)
(* Program constants.                                                      *)
(***************************************************************************)
BOOKS ==
  << <<"Genesis", 1, 50>>, <<"Exodus", 2, 40>>,
     <<"Leviticus", 3, 27>>, <<"Numbers", 4, 36>>,
     <<"Deuteronomy", 5, 34>>, <<"Joshua", 6, 24>>,
     <<"Judges", 7, 21>>, <<"Ruth", 8, 4>>,
     <<"1 Samuel", 9, 31>>, <<"2 Samuel", 10, 24>>,
     <<"1 Kings", 11, 22>>, <<"2 Kings", 12, 25>>,
     <<"1 Chronicles", 13, 29>>, <<"2 Chronicles", 14, 36>>,
     <<"Ezra", 15, 10>>, <<"Nehemiah", 16, 13>>,
     <<"Esther", 17, 10>>, <<"Job", 18, 42>>,
     <<"Psalm", 19, 150>>, <<"Proverbs", 20, 31>>,
     <<"Ecclesiastes", 21, 12>>, <<"Song of Solomon", 22, 8>>,
     <<"Isaiah", 23, 66>>, <<"Jeremiah", 24, 52>>,
     <<"Lamentations", 25, 5>>, <<"Ezekiel", 26, 48>>,
     <<"Daniel", 27, 12>>, <<"Hosea", 28, 14>>,
     <<"Joel", 29, 3>>, <<"Amos", 30, 9>>,
     <<"Obadiah", 31, 1>>, <<"Jonah", 32, 4>>,
     <<"Micah", 33, 7>>, <<"Nahum", 34, 3>>,
     <<"Habakkuk", 35, 3>>, <<"Zephaniah", 36, 3>>,
     <<"Haggai", 37, 2>>, <<"Zechariah", 38, 14>>,
     <<"Malachi", 39, 4>>,
     <<"Matthew", 40, 28>>, <<"Mark", 41, 16>>,
     <<"Luke", 42, 24>>, <<"John", 43, 21>>,
     <<"Acts", 44, 28>>, <<"Romans", 45, 16>>,
     <<"1 Corinthians", 46, 16>>, <<"2 Corinthians", 47, 13>>,
     <<"Galatians", 48, 6>>, <<"Ephesians", 49, 6>>,
     <<"Philippians", 50, 4>>, <<"Colossians", 51, 4>>,
     <<"1 Thessalonians", 52, 5>>, <<"2 Thessalonians", 53, 3>>,
     <<"1 Timothy", 54, 6>>, <<"2 Timothy", 55, 4>>,
     <<"Titus", 56, 3>>, <<"Philemon", 57, 1>>,
     <<"Hebrews", 58, 13>>, <<"James", 59, 5>>,
     <<"1 Peter", 60, 5>>, <<"2 Peter", 61, 3>>,
     <<"1 John", 62, 5>>, <<"2 John", 63, 1>>,
     <<"3 John", 64, 1>>, <<"Jude", 65, 1>>,
     <<"Revelation", 66, 22>> >>

\* The keys of the TRANSLATIONS dictionary; each maps to ".../get-verse/<key>".
TRANSLATIONS == {"NASB", "KJV", "NIV", "ESV", "NKJV", "NLT", "CSB"}

\* range(1, 25) and range(1, 61) of download_all_verses.
NumChapters == 24
NumVerses == 60
\* downloaded_verses % 100 == 0: a status is written every 100 fetches.
StatusEvery == 100

\* The hardcoded default of pick_book_and_fetch.
DefaultText == <<"The Lord is my shepherd; I shall not want.">>
DefaultVerse == <<"Psalm", DefaultText>>

\* Python's None, the empty string, and an exception leaving a call.
\* (Every value a call returns is a tuple, so that any two can be compared.)
None == <<"None">>
EmptyText == <<>>
Raised == <<"Raised">>

(***************************************************************************)
(* The environment: what a network request for a verse comes to.           *)
(*   ok        a JSON object with a "text" that is not empty once cleaned  *)
(*   empty     a JSON object whose "text" is empty once cleaned            *)
(*   notext    a JSON object without "text"                                *)
(*   nulltext  a JSON object whose "text" is null: .strip() raises         *)
(*             AttributeError, which fetch_verse does not catch            *)
(*   badjson   a body that is not JSON: JSONDecodeError                    *)
(*   urlerror  URLError (HTTPError included) from urlopen                  *)
(*   timeout   the 10 s socket timeout while the response is read: a       *)
(*             TimeoutError, not a URLError, which fetch_verse does not    *)
(*             catch                                                       *)
(***************************************************************************)
FaultKinds == {"empty", "notext", "nulltext", "badjson", "urlerror", "timeout"}
RaisingKinds == {"nulltext", "timeout"}

VARIABLES
  srv,             \* the environment: which requests fail, and how
  cacheFiles,      \* cache_dir/<translation>.json: translation -> (key -> text)
  statusFile,      \* download_status.json as get_download_status reads it
  statusLog,       \* history: every status written, in order
  fetched,         \* history: the latest call of fetch_verse made by the
                   \* foreground itself or by download_all_verses
  picked,          \* history: the latest call of pick_book_and_fetch
  calls,           \* history: calls made by the foreground so far
  threads,         \* the Thread objects created, in order of creation
  download_thread, \* self.download_thread: 0 (None) or an index of threads
  callers,         \* the foreground callers of the BibleVerse instance
  image,           \* what the latest generate_image drew
  wrapped,         \* the latest call of wrap_text and its result
  writers          \* the two users of one BibleCache, each at a step of the
                   \* fetch_verse it is in, with what it has saved so far

vars == <<srv, cacheFiles, statusFile, statusLog, fetched, picked, calls,
          threads, download_thread, callers, image, wrapped, writers>>

(***************************************************************************)
(* The translations given to the program in this model: one of             *)
(* TRANSLATIONS and one that is not (its requests go to the NASB URL).     *)
(***************************************************************************)
Translations == {"KJV", "LSB"}

\* TRANSLATIONS.get(translation, TRANSLATIONS["NASB"])
ApiBase(translation) ==
  IF translation \in TRANSLATIONS THEN translation ELSE "NASB"

\* f"{book_id}_{chapter}_{verse}"
Key(book_id, chapter, verse) == <<book_id, chapter, verse>>

\* The cleaned text the server of `api` holds for a verse.
ServerText(api, book_id, chapter, verse) == <<api, book_id, chapter, verse>>

\* Python's truth of a returned text: None and "" are false.
Truthy(text) == text # None /\ text # EmptyText

(***************************************************************************)
(* urlopen and the reading of its response: a request fails in the way     *)
(* srv.kind when its book, chapter and verse are all at or above srv's.    *)
(***************************************************************************)
urlopen(env, book_id, chapter, verse) ==
  IF /\ env.kind # "ok"
     /\ book_id >= env.book
     /\ chapter >= env.chapter
     /\ verse >= env.verse
  THEN env.kind
  ELSE "ok"

(***************************************************************************)
(* BibleCache                                                              *)
(***************************************************************************)
\* A file that does not exist, or cannot be parsed, loads as {}.
load_cache(files, translation) == files[translation]

save_cache(files, translation, data) ==
  [files EXCEPT ![translation] = data]

get_verse_from_cache(files, translation, book_id, chapter, verse) ==
  LET cache == load_cache(files, translation)
      key == Key(book_id, chapter, verse)
  IN  IF key \in DOMAIN cache THEN cache[key] ELSE None

\* cache[key] = text
DictPut(cache, key, text) ==
  (key :> text) @@ cache

\* Mutant: the file is written without the entries it held.
save_verse_to_cache_alone(files, translation, book_id, chapter, verse, text) ==
  save_cache(files, translation,
             DictPut(<<>>, Key(book_id, chapter, verse), text))

save_verse_to_cache(files, translation, book_id, chapter, verse, text) ==
  LET cache == load_cache(files, translation)
      key == Key(book_id, chapter, verse)
  IN  save_cache(files, translation, DictPut(cache, key, text))

\* json.dump({"status", "progress", "message", "timestamp"}); the message is
\* kept as the numbers it is formatted from.
StatusRecord(status, progress, message) ==
  [status |-> status, progress |-> progress, message |-> message]

\* get_download_status() while the file does not exist.
not_started == StatusRecord("not_started", 0, <<>>)

\* Mutant: the cache is written but never read.
fetch_verse_uncached(files, env, translation, book_id, chapter, verse, use_cache) ==
  LET response == urlopen(env, book_id, chapter, verse)
      text == IF response = "ok"
              THEN ServerText(ApiBase(translation), book_id, chapter, verse)
              ELSE EmptyText
  IN  IF response \in {"ok", "empty"}
      THEN [ret |-> text,
            files |-> IF use_cache
                      THEN save_verse_to_cache(files, translation, book_id,
                                               chapter, verse, text)
                      ELSE files,
            net |-> response]
      ELSE IF response \in RaisingKinds
      THEN [ret |-> Raised, files |-> files, net |-> response]
      ELSE [ret |-> None, files |-> files, net |-> response]

(***************************************************************************)
(* fetch_verse(translation, book_id, chapter, verse, cache): the value     *)
(* returned (or Raised), the files afterwards, and what the network        *)
(* request came to ("none": no request was made).                          *)
(***************************************************************************)
fetch_verse(files, env, translation, book_id, chapter, verse, use_cache) ==
  LET cached_text ==
        IF use_cache
        THEN get_verse_from_cache(files, translation, book_id, chapter, verse)
        ELSE None
      response == urlopen(env, book_id, chapter, verse)
      text == IF response = "ok"
              THEN ServerText(ApiBase(translation), book_id, chapter, verse)
              ELSE EmptyText
  IN  IF use_cache /\ Truthy(cached_text)
      THEN [ret |-> cached_text, files |-> files, net |-> "none"]
      ELSE IF response \in {"ok", "empty"}
      THEN [ret |-> text,
            files |-> IF use_cache
                      THEN save_verse_to_cache(files, translation, book_id,
                                               chapter, verse, text)
                      ELSE files,
            net |-> response]
      ELSE IF response \in RaisingKinds
      THEN [ret |-> Raised, files |-> files, net |-> response]
      ELSE [ret |-> None, files |-> files, net |-> response]

(***************************************************************************)
(* pick_book_and_fetch                                                     *)
(***************************************************************************)
\* Mutant: the comparison the other way round.
candidates_reversed(chapter) ==
  LET has_chapter(b) == b[3] <= chapter
      kept == SelectSeq(BOOKS, has_chapter)
  IN  [i \in 1..Len(kept) |-> <<kept[i][1], kept[i][2]>>]

\* [(name, book_id) for name, book_id, max_ch in BOOKS if max_ch >= chapter]
candidates(chapter) ==
  LET has_chapter(b) == b[3] >= chapter
      kept == SelectSeq(BOOKS, has_chapter)
  IN  [i \in 1..Len(kept) |-> <<kept[i][1], kept[i][2]>>]

\* random.shuffle: a permutation of the list.  The permutations the model
\* draws are the rotations of the list, read forwards or backwards.
shuffle(list, rotation, forwards) ==
  LET n == Len(list)
  IN  [i \in 1..n |->
         list[(((IF forwards THEN i - 1 ELSE n - i) + rotation) % n) + 1]]

\* The for loop of pick_book_and_fetch from position Len(tried) + 1 of the
\* shuffled candidates; tried and nets list the book of every call of
\* fetch_verse made so far and what its request came to.
RECURSIVE pick_loop(_, _, _, _, _, _, _, _, _)
pick_loop(files, env, translation, chapter, verse, use_cache, order, tried, nets) ==
  IF Len(tried) = Len(order)
  THEN [ret |-> DefaultVerse, files |-> files, tried |-> tried, nets |-> nets]
  ELSE LET name == order[Len(tried) + 1][1]
           book_id == order[Len(tried) + 1][2]
           r == fetch_verse(files, env, translation, book_id, chapter, verse,
                            use_cache)
       IN  IF r.ret = Raised
           THEN [ret |-> Raised, files |-> r.files,
                 tried |-> Append(tried, book_id), nets |-> Append(nets, r.net)]
           ELSE IF Truthy(r.ret)
           THEN [ret |-> <<name, r.ret>>, files |-> r.files,
                 tried |-> Append(tried, book_id), nets |-> Append(nets, r.net)]
           ELSE pick_loop(r.files, env, translation, chapter, verse, use_cache,
                          order, Append(tried, book_id), Append(nets, r.net))

pick_book_and_fetch(files, env, translation, chapter, verse, use_cache, rotation, forwards) ==
  LET cands == candidates(chapter)
  IN  IF Len(cands) = 0
      THEN [ret |-> DefaultVerse, files |-> files, tried |-> <<>>, nets |-> <<>>]
      ELSE pick_loop(files, env, translation, chapter, verse, use_cache,
                     shuffle(cands, rotation, forwards), <<>>, <<>>)

\* History: what a translation's cache file holds under a key, None when
\* absent.
Stored(files, translation, key) ==
  IF key \in DOMAIN files[translation] THEN files[translation][key] ELSE None

(***************************************************************************)
(* Initial state: a new BibleVerse over an empty cache directory, under a  *)
(* network of one of the given conditions.                                 *)
(***************************************************************************)
NoFault == [kind |-> "ok", book |-> 1, chapter |-> 1, verse |-> 1]

Faults(kinds, books, chapters, verses) ==
  {[kind |-> k, book |-> b, chapter |-> c, verse |-> v] :
     k \in kinds, b \in books, c \in chapters, v \in verses}

Callers == {1, 2}

NoFetch == [translation |-> "", book_id |-> 0, chapter |-> 0, verse |-> 0,
            use_cache |-> FALSE, cached |-> None, ret |-> None, net |-> "none"]

NoPick == [translation |-> "", chapter |-> 0, verse |-> 0, ret |-> None,
           tried |-> <<>>, nets |-> <<>>]

NoImage == [drawn |-> FALSE, raised |-> FALSE, hour |-> 0, minute |-> 0,
            is_dst |-> FALSE, dst_override |-> "", now_hour |-> 0,
            now_minute |-> 0, chapter |-> 0, verse |-> 0, translation |-> "",
            book |-> "", text |-> None, reference |-> <<>>]

NoWrap == [called |-> FALSE, text |-> <<>>, max_width |-> 0, lines |-> <<>>]

\* The two users of self.cache: the thread of download_all_verses and the
\* caller of generate_image, neither inside fetch_verse yet.
Users == {"download_all_verses", "generate_image"}

IdleUser == [pc |-> "idle", translation |-> "", book_id |-> 0, chapter |-> 0,
             verse |-> 0, text |-> None, cache |-> <<>>, dirty |-> FALSE,
             ret |-> None, fetches |-> 0, saved |-> {}]

InitWith(conditions) ==
  /\ srv \in conditions
  /\ cacheFiles = [t \in Translations |-> <<>>]
  /\ statusFile = not_started
  /\ statusLog = <<>>
  /\ fetched = NoFetch
  /\ picked = NoPick
  /\ calls = 0
  /\ threads = <<>>
  /\ download_thread = 0
  /\ callers = [c \in Callers |-> [pc |-> "idle", translations |-> <<>>,
                                     via |-> "none"]]
  /\ image = NoImage
  /\ wrapped = NoWrap
  /\ writers = [p \in Users |-> IdleUser]

(***************************************************************************)
(* A foreground call of fetch_verse.                                       *)
(***************************************************************************)
FetchVerseCall(translation, book_id, chapter, verse, use_cache) ==
  LET r == fetch_verse(cacheFiles, srv, translation, book_id, chapter, verse,
                       use_cache)
  IN  /\ calls < MaxCalls
      /\ calls' = calls + 1
      /\ cacheFiles' = r.files
      /\ fetched' = [translation |-> translation, book_id |-> book_id,
                     chapter |-> chapter, verse |-> verse,
                     use_cache |-> use_cache,
                     cached |-> Stored(cacheFiles, translation,
                                       Key(book_id, chapter, verse)),
                     ret |-> r.ret, net |-> r.net]
      /\ UNCHANGED <<writers, srv, statusFile, statusLog, picked, threads,
                     download_thread, callers, image, wrapped>>

(***************************************************************************)
(* A foreground call of pick_book_and_fetch.                               *)
(***************************************************************************)
PickCall(translation, chapter, verse, rotation, forwards) ==
  LET r == pick_book_and_fetch(cacheFiles, srv, translation, chapter, verse,
                               TRUE, rotation, forwards)
  IN  /\ calls < MaxCalls
      /\ calls' = calls + 1
      /\ cacheFiles' = r.files
      /\ picked' = [translation |-> translation, chapter |-> chapter,
                    verse |-> verse, ret |-> r.ret, tried |-> r.tried,
                    nets |-> r.nets]
      /\ UNCHANGED <<writers, srv, statusFile, statusLog, fetched, threads,
                     download_thread, callers, image, wrapped>>

(***************************************************************************)
(* BibleCache.set_download_status                                          *)
(***************************************************************************)
set_download_status(log, status, progress, message) ==
  Append(log, StatusRecord(status, progress, message))

(***************************************************************************)
(* download_all_verses, run by thread i.  A thread is                      *)
(*   created  made by threading.Thread(...), not started                   *)
(*   start    started, before the first statement of download_all_verses   *)
(*   loop     about to run the body of the loops for translation number    *)
(*            ti, chapter and verse                                        *)
(*   finish   past the loops, about to write "completed"                   *)
(*   done     returned                                                     *)
(***************************************************************************)
NewThread(translations) ==
  [pc |-> "created", translations |-> translations, ti |-> 0, chapter |-> 0,
   verse |-> 0, downloaded_verses |-> 0]

is_alive(thread) == thread.pc \in {"start", "loop", "finish"}

\* total_combinations = 24 * 60 * len(translations_to_download)
total_combinations(translations) ==
  NumChapters * NumVerses * Len(translations)

\* Mutant: the quotient the other way round.
progress_of_inverted(downloaded_verses, total) ==
  (total \div downloaded_verses) * 100

\* int((downloaded_verses / total_combinations) * 100); at the multiples of
\* 100 at which it is written the float product is the exact quotient's floor.
progress_of(downloaded_verses, total) == (downloaded_verses * 100) \div total

\* Mutant: range(1, 60) for the verses.
next_iteration_short(thread) ==
  IF thread.verse < NumVerses - 1
  THEN [thread EXCEPT !.verse = thread.verse + 1]
  ELSE IF thread.chapter < NumChapters
  THEN [thread EXCEPT !.chapter = thread.chapter + 1, !.verse = 1]
  ELSE IF thread.ti < Len(thread.translations)
  THEN [thread EXCEPT !.ti = thread.ti + 1, !.chapter = 1, !.verse = 1]
  ELSE [thread EXCEPT !.pc = "finish"]

\* Where the three nested for loops stand after the body ran at
\* (ti, chapter, verse): range(1, 61) inside range(1, 25) inside the list.
next_iteration(thread) ==
  IF thread.verse < NumVerses
  THEN [thread EXCEPT !.verse = thread.verse + 1]
  ELSE IF thread.chapter < NumChapters
  THEN [thread EXCEPT !.chapter = thread.chapter + 1, !.verse = 1]
  ELSE IF thread.ti < Len(thread.translations)
  THEN [thread EXCEPT !.ti = thread.ti + 1, !.chapter = 1, !.verse = 1]
  ELSE [thread EXCEPT !.pc = "finish"]

\* Lines 172-178: the first status, then into the loops.
DownloadBegin(i) ==
  /\ i \in DOMAIN threads
  /\ threads[i].pc = "start"
  /\ statusLog' = set_download_status(statusLog, "downloading", 0,
                                      <<"Starting download...">>)
  /\ statusFile' = statusLog'[Len(statusLog')]
  /\ threads' = [threads EXCEPT ![i] =
                   IF Len(threads[i].translations) = 0
                   THEN [@ EXCEPT !.pc = "finish"]
                   ELSE [@ EXCEPT !.pc = "loop", !.ti = 1, !.chapter = 1,
                                  !.verse = 1]]
  /\ UNCHANGED <<writers, srv, cacheFiles, fetched, picked, calls, download_thread,
                 callers, image, wrapped>>

\* Lines 183-198, one run of the body of the loops; an exception of
\* fetch_verse goes to the except clause of line 203, which writes "error".
DownloadFetch(i) ==
  /\ i \in DOMAIN threads
  /\ threads[i].pc = "loop"
  /\ LET th == threads[i]
         translation == th.translations[th.ti]
         cands == candidates(th.chapter)
         book_id == cands[1][2]
         r == fetch_verse(cacheFiles, srv, translation, book_id, th.chapter,
                          th.verse, TRUE)
         downloaded_verses == th.downloaded_verses + 1
         total == total_combinations(th.translations)
         progress == progress_of(downloaded_verses, total)
     IN  IF Len(cands) = 0
         THEN /\ threads' = [threads EXCEPT ![i] = next_iteration(th)]
              /\ UNCHANGED <<cacheFiles, fetched, statusLog, statusFile>>
         ELSE /\ cacheFiles' = r.files
              /\ fetched' = [translation |-> translation, book_id |-> book_id,
                             chapter |-> th.chapter, verse |-> th.verse,
                             use_cache |-> TRUE,
                             cached |-> Stored(cacheFiles, translation,
                                          Key(book_id, th.chapter, th.verse)),
                             ret |-> r.ret, net |-> r.net]
              /\ IF r.ret = Raised
                 THEN /\ statusLog' = set_download_status(statusLog, "error", 0,
                                                          <<"Error", r.net>>)
                      /\ threads' = [threads EXCEPT ![i].pc = "done"]
                 ELSE /\ statusLog' =
                           IF downloaded_verses % StatusEvery = 0
                           THEN set_download_status(statusLog, "downloading",
                                  progress,
                                  <<translation, downloaded_verses, total>>)
                           ELSE statusLog
                      /\ threads' = [threads EXCEPT ![i] =
                            next_iteration([th EXCEPT !.downloaded_verses =
                                                        downloaded_verses])]
              /\ statusFile' = IF statusLog' = statusLog THEN statusFile
                               ELSE statusLog'[Len(statusLog')]
  /\ UNCHANGED <<writers, srv, picked, calls, download_thread, callers, image, wrapped>>

\* Line 200: the last status, and the thread ends.
DownloadFinish(i) ==
  /\ i \in DOMAIN threads
  /\ threads[i].pc = "finish"
  /\ statusLog' = set_download_status(statusLog, "completed", 100,
                     <<"Downloaded all verses for",
                       Len(threads[i].translations)>>)
  /\ statusFile' = statusLog'[Len(statusLog')]
  /\ threads' = [threads EXCEPT ![i].pc = "done"]
  /\ UNCHANGED <<writers, srv, cacheFiles, fetched, picked, calls, download_thread,
                 callers, image, wrapped>>

(***************************************************************************)
(* BibleVerse.start_bulk_download, called by caller c and run one          *)
(* statement at a time.  A caller is                                       *)
(*   idle        outside every call                                        *)
(*   sbd_check   at line 257, about to test self.download_thread           *)
(*   sbd_create  at line 261, about to make and assign the Thread          *)
(*   sbd_start   at line 266, about to start self.download_thread          *)
(*   gi_body     at line 278 of generate_image                             *)
(***************************************************************************)
\* Where a caller goes when start_bulk_download returns.
after_start_bulk_download(caller) ==
  [caller EXCEPT !.pc = IF caller.via = "generate_image" THEN "gi_body"
                        ELSE "idle"]

StartBulkDownloadCall(c, translations) ==
  /\ callers[c].pc = "idle"
  /\ calls < MaxCalls
  /\ calls' = calls + 1
  /\ callers' = [callers EXCEPT ![c] =
                   [pc |-> "sbd_check", translations |-> translations,
                    via |-> "start_bulk_download"]]
  /\ UNCHANGED <<writers, srv, cacheFiles, statusFile, statusLog, fetched, picked,
                 threads, download_thread, image, wrapped>>

\* Line 257: if self.download_thread and self.download_thread.is_alive()
StartBulkDownloadCheck(c) ==
  /\ callers[c].pc = "sbd_check"
  /\ callers' = [callers EXCEPT ![c] =
                   IF download_thread # 0 /\ is_alive(threads[download_thread])
                   THEN after_start_bulk_download(@)
                   ELSE [@ EXCEPT !.pc = "sbd_create"]]
  /\ UNCHANGED <<writers, srv, cacheFiles, statusFile, statusLog, fetched, picked,
                 calls, threads, download_thread, image, wrapped>>

\* Lines 261-265: self.download_thread = threading.Thread(...)
StartBulkDownloadCreate(c) ==
  /\ callers[c].pc = "sbd_create"
  /\ Len(threads) < MaxThreads
  /\ threads' = Append(threads, NewThread(callers[c].translations))
  /\ download_thread' = Len(threads) + 1
  /\ callers' = [callers EXCEPT ![c].pc = "sbd_start"]
  /\ UNCHANGED <<writers, srv, cacheFiles, statusFile, statusLog, fetched, picked,
                 calls, image, wrapped>>

\* Line 266: self.download_thread.start(); starting a thread a second time
\* raises RuntimeError, which leaves the call (and generate_image).
StartBulkDownloadStart(c) ==
  /\ callers[c].pc = "sbd_start"
  /\ IF threads[download_thread].pc = "created"
     THEN /\ threads' = [threads EXCEPT ![download_thread].pc = "start"]
          /\ callers' = [callers EXCEPT ![c] = after_start_bulk_download(@)]
          /\ image' = image
     ELSE /\ threads' = threads
          /\ callers' = [callers EXCEPT ![c].pc = "idle"]
          /\ image' = IF callers[c].via = "generate_image"
                      THEN [NoImage EXCEPT !.raised = TRUE]
                      ELSE image
  /\ UNCHANGED <<writers, srv, cacheFiles, statusFile, statusLog, fetched, picked,
                 calls, download_thread, wrapped>>

(***************************************************************************)
(* BibleVerse.generate_image, called by caller c.                          *)
(***************************************************************************)
\* Lines 272-274: the setting is a list, or a string that stands for the
\* list of itself when it is not empty.
download_translations(setting) ==
  IF setting.is_str
  THEN IF setting.str # "" THEN <<setting.str>> ELSE <<>>
  ELSE setting.list

\* Lines 271-276: the download is started when it was triggered for a list
\* that is not empty.
GenerateImageCall(c, triggerDownload, downloadTranslations) ==
  LET download_trans == download_translations(downloadTranslations)
  IN  /\ callers[c].pc = "idle"
      /\ calls < MaxCalls
      /\ calls' = calls + 1
      /\ callers' = [callers EXCEPT ![c] =
                       IF triggerDownload = "yes" /\ download_trans # <<>>
                       THEN [pc |-> "sbd_check", translations |-> download_trans,
                             via |-> "generate_image"]
                       ELSE [pc |-> "gi_body", translations |-> <<>>,
                             via |-> "generate_image"]]
      /\ UNCHANGED <<writers, srv, cacheFiles, statusFile, statusLog, fetched, picked,
                     threads, download_thread, image, wrapped>>

\* Lines 289-297: now.hour after the DST override; adding or subtracting an
\* hour moves the wall clock by one hour, around midnight too.
hour_with_dst_override(hour, is_dst, dst_override) ==
  IF dst_override = "always_dst" /\ ~is_dst THEN (hour + 1) % 24
  ELSE IF dst_override = "never_dst" /\ is_dst THEN (hour + 23) % 24
  ELSE hour

\* Mutant: midnight left as hour 0.
chapter_of_hour(hour) == hour

\* chapter = now.hour if now.hour != 0 else 24
chapter_of(hour) == IF hour # 0 THEN hour ELSE 24

\* verse = now.minute if now.minute != 0 else 1
verse_of(minute) == IF minute # 0 THEN minute ELSE 1

\* Lines 278-492: the time gives the chapter and the verse, the verse is
\* picked, and its text, reference and translation are drawn.
GenerateImageBody(c, hour, minute, is_dst, dst_override, translation, rotation, forwards) ==
  LET now_hour == hour_with_dst_override(hour, is_dst, dst_override)
      chapter == chapter_of(now_hour)
      verse == verse_of(minute)
      r == pick_book_and_fetch(cacheFiles, srv, translation, chapter, verse,
                               TRUE, rotation, forwards)
      now == [NoImage EXCEPT !.hour = hour, !.minute = minute,
                             !.is_dst = is_dst, !.dst_override = dst_override,
                             !.now_hour = now_hour, !.now_minute = minute,
                             !.chapter = chapter, !.verse = verse,
                             !.translation = translation]
  IN  /\ callers[c].pc = "gi_body"
      /\ callers' = [callers EXCEPT ![c].pc = "idle"]
      /\ cacheFiles' = r.files
      /\ picked' = [translation |-> translation, chapter |-> chapter,
                    verse |-> verse, ret |-> r.ret, tried |-> r.tried,
                    nets |-> r.nets]
      /\ image' = IF r.ret = Raised
                  THEN [now EXCEPT !.raised = TRUE]
                  ELSE [now EXCEPT !.drawn = TRUE, !.book = r.ret[1],
                                   !.text = r.ret[2],
                                   !.reference = <<r.ret[1], chapter, verse>>]
      /\ UNCHANGED <<writers, srv, statusFile, statusLog, fetched, calls, threads,
                     download_thread, wrapped>>

(***************************************************************************)
(* fetch_verse with a cache, step by step.  BibleCache takes no lock and   *)
(* keeps nothing in memory: get_verse_from_cache and save_verse_to_cache   *)
(* each read the whole file (load_cache), and save_cache opens it with     *)
(* mode 'w', which empties it, and writes the whole dict again.  The       *)
(* steps of one user are: "get" (line 144), "request" (lines 148-159),     *)
(* "load" (lines 112-114), "open" (line 98) and "dump" (line 99 and the    *)
(* close of the file).  cacheFiles holds each file as load_cache reads it: *)
(* a file that is empty or is not JSON reads as {} (lines 90-92).          *)
(***************************************************************************)
\* The user has run its calls of fetch_verse.
Finished(p) ==
  /\ writers[p].pc = "idle"
  /\ IF p = "download_all_verses"
     THEN writers[p].fetches = MaxSaves \/ writers[p].ret = Raised
     ELSE /\ writers[p].fetches >= 1
          /\ \/ Truthy(writers[p].ret)
             \/ writers[p].ret = Raised
             \/ writers[p].fetches = MaxSaves

\* Entering fetch_verse(translation, book_id, chapter, verse, cache).
enter_fetch_verse(user, translation, book_id, chapter, verse) ==
  [user EXCEPT !.pc = "get", !.translation = translation,
               !.book_id = book_id, !.chapter = chapter, !.verse = verse,
               !.text = None, !.cache = <<>>, !.dirty = FALSE,
               !.fetches = user.fetches + 1]

\* Lines 178-187: the next iteration of download_all_verses(cache, ["KJV"]),
\* which starts at chapter 1, verse 1 with the first candidate book.
CacheDownloadFetch ==
  LET p == "download_all_verses"
      chapter == 1
      verse == writers[p].fetches + 1
      cands == candidates(chapter)
  IN  /\ writers[p].pc = "idle"
      /\ ~Finished(p)
      /\ writers[p].fetches < MaxSaves
      /\ writers' = [writers EXCEPT ![p] =
                       enter_fetch_verse(@, "KJV", cands[1][2], chapter, verse)]
      /\ UNCHANGED <<srv, cacheFiles, statusFile, statusLog, fetched, picked,
                     calls, threads, download_thread, callers, image, wrapped>>

\* Lines 215-216 under line 319: the next candidate of pick_book_and_fetch,
\* any book that has the chapter and was not tried.
CachePickFetch(translation, book_id, chapter, verse) ==
  LET p == "generate_image"
  IN  /\ writers[p].pc = "idle"
      /\ ~Finished(p)
      /\ writers[p].fetches < MaxSaves
      /\ \E i \in DOMAIN candidates(chapter) : candidates(chapter)[i][2] = book_id
      /\ writers[p].fetches > 0 =>
           /\ translation = writers[p].translation
           /\ chapter = writers[p].chapter
           /\ verse = writers[p].verse
           /\ book_id # writers[p].book_id
      /\ writers' = [writers EXCEPT ![p] =
                       enter_fetch_verse(@, translation, book_id, chapter, verse)]
      /\ UNCHANGED <<srv, cacheFiles, statusFile, statusLog, fetched, picked,
                     calls, threads, download_thread, callers, image, wrapped>>

\* Lines 143-146: get_verse_from_cache reads the file; a text found is
\* returned.
CacheGet(p) ==
  LET u == writers[p]
      cached_text == get_verse_from_cache(cacheFiles, u.translation, u.book_id,
                                          u.chapter, u.verse)
  IN  /\ u.pc = "get"
      /\ writers' = [writers EXCEPT ![p] =
                       IF Truthy(cached_text)
                       THEN [@ EXCEPT !.pc = "idle", !.ret = cached_text]
                       ELSE [@ EXCEPT !.pc = "request"]]
      /\ UNCHANGED <<srv, cacheFiles, statusFile, statusLog, fetched, picked,
                     calls, threads, download_thread, callers, image, wrapped>>

\* Lines 148-159 and 163-166: the request and the cleaning of its text.
CacheRequest(p) ==
  LET u == writers[p]
      response == urlopen(srv, u.book_id, u.chapter, u.verse)
      text == IF response = "ok"
              THEN ServerText(ApiBase(u.translation), u.book_id, u.chapter,
                              u.verse)
              ELSE EmptyText
  IN  /\ u.pc = "request"
      /\ writers' = [writers EXCEPT ![p] =
                       IF response \in {"ok", "empty"}
                       THEN [@ EXCEPT !.pc = "load", !.text = text]
                       ELSE IF response \in RaisingKinds
                       THEN [@ EXCEPT !.pc = "idle", !.ret = Raised]
                       ELSE [@ EXCEPT !.pc = "idle", !.ret = None]]
      /\ UNCHANGED <<srv, cacheFiles, statusFile, statusLog, fetched, picked,
                     calls, threads, download_thread, callers, image, wrapped>>

\* Lines 112-114: save_verse_to_cache reads the file into its own dict and
\* puts the text in it.
CacheSaveLoad(p) ==
  LET u == writers[p]
      cache == load_cache(cacheFiles, u.translation)
      key == Key(u.book_id, u.chapter, u.verse)
  IN  /\ u.pc = "load"
      /\ writers' = [writers EXCEPT ![p] =
                       [@ EXCEPT !.pc = "open",
                                 !.cache = DictPut(cache, key, u.text)]]
      /\ UNCHANGED <<srv, cacheFiles, statusFile, statusLog, fetched, picked,
                     calls, threads, download_thread, callers, image, wrapped>>

\* Line 98: open(cache_file, 'w') empties the file.
CacheSaveOpen(p) ==
  LET u == writers[p]
  IN  /\ u.pc = "open"
      /\ cacheFiles' = save_cache(cacheFiles, u.translation, <<>>)
      /\ writers' = [writers EXCEPT ![p] = [@ EXCEPT !.pc = "dump",
                                                      !.dirty = FALSE]]
      /\ UNCHANGED <<srv, statusFile, statusLog, fetched, picked, calls,
                     threads, download_thread, callers, image, wrapped>>

\* Lines 99 and 162: json.dump and the close of the file, and the return of
\* the text.  Each open file writes from its own position 0: when the other
\* user wrote the file while this one had it open, the file ends as this
\* user's dict, or as its bytes followed by what is left of the longer text
\* of the other, which is not JSON.
CacheSaveDump(p, parses) ==
  LET u == writers[p]
      key == Key(u.book_id, u.chapter, u.verse)
      others == {q \in Users \ {p} : /\ writers[q].pc = "dump"
                                     /\ writers[q].translation = u.translation}
  IN  /\ u.pc = "dump"
      /\ parses \/ u.dirty
      /\ cacheFiles' = save_cache(cacheFiles, u.translation,
                                  IF parses THEN u.cache ELSE <<>>)
      /\ writers' = [q \in Users |->
                       IF q = p
                       THEN [u EXCEPT !.pc = "idle", !.ret = u.text,
                                      !.dirty = FALSE,
                                      !.saved = @ \cup {<<u.translation, key,
                                                          u.text>>}]
                       ELSE IF q \in others
                       THEN [writers[q] EXCEPT !.dirty = TRUE]
                       ELSE writers[q]]
      /\ UNCHANGED <<srv, statusFile, statusLog, fetched, picked, calls,
                     threads, download_thread, callers, image, wrapped>>


(***************************************************************************)
(* wrap_text.  A text is a sequence of characters; the font gives each     *)
(* character a width, and the measured width of a string                   *)
(* (bbox[2] - bbox[0] of draw.textbbox) is the sum of those of its         *)
(* characters.                                                             *)
(***************************************************************************)
Alphabet == {"a", "M", " "}

char_width(ch) == IF ch = "M" THEN 2 ELSE 1

RECURSIVE textwidth(_)
textwidth(str) ==
  IF str = <<>> THEN 0 ELSE char_width(Head(str)) + textwidth(Tail(str))

\* str.split(): the maximal runs of characters that are not whitespace.
RECURSIVE split_loop(_, _, _)
split_loop(str, word, words) ==
  IF str = <<>>
  THEN IF word = <<>> THEN words ELSE Append(words, word)
  ELSE IF Head(str) = " "
  THEN split_loop(Tail(str), <<>>,
                  IF word = <<>> THEN words ELSE Append(words, word))
  ELSE split_loop(Tail(str), Append(word, Head(str)), words)

split(str) == split_loop(str, <<>>, <<>>)

\* str.strip(): without its leading and trailing whitespace.
RECURSIVE strip(_)
strip(str) ==
  IF str = <<>> THEN str
  ELSE IF Head(str) = " " THEN strip(Tail(str))
  ELSE IF str[Len(str)] = " " THEN strip(SubSeq(str, 1, Len(str) - 1))
  ELSE str

\* The for loop of wrap_text over words[i..]: the lines and current after it.
RECURSIVE wrap_loop(_, _, _, _, _)
wrap_loop(words, i, lines, current, max_width) ==
  IF i > Len(words)
  THEN [lines |-> lines, current |-> current]
  ELSE LET word == words[i]
           test == strip(current \o <<" ">> \o word)
       IN  IF textwidth(test) <= max_width
           THEN wrap_loop(words, i + 1, lines, test, max_width)
           ELSE wrap_loop(words, i + 1,
                          IF current # <<>> THEN Append(lines, current)
                          ELSE lines,
                          word, max_width)

\* Mutant: the line still being filled when the words run out is dropped.
wrap_text_no_tail(text, max_width) ==
  wrap_loop(split(text), 1, <<>>, <<>>, max_width).lines

wrap_text(text, max_width) ==
  LET r == wrap_loop(split(text), 1, <<>>, <<>>, max_width)
  IN  IF r.current # <<>> THEN Append(r.lines, r.current) ELSE r.lines

WrapTextCall(text, max_width) ==
  /\ wrapped' = [called |-> TRUE, text |-> text, max_width |-> max_width,
                 lines |-> wrap_text(text, max_width)]
  /\ UNCHANGED <<writers, srv, cacheFiles, statusFile, statusLog, fetched, picked,
                 calls, threads, download_thread, callers, image>>

(***************************************************************************)
(* SpecFetch: foreground calls of fetch_verse.                             *)
(***************************************************************************)
FetchBooks == {1, 19}
FetchChapters == {1}
FetchVerses == {1, NumVerses}

InitFetch ==
  InitWith({NoFault} \cup Faults(FaultKinds, {1, 2}, {1}, {1, NumVerses}))

NextFetch ==
  \E t \in Translations, b \in FetchBooks, c \in FetchChapters,
     v \in FetchVerses, use_cache \in BOOLEAN :
    FetchVerseCall(t, b, c, v, use_cache)

SpecFetch == InitFetch /\ [][NextFetch]_vars

(***************************************************************************)
(* SpecPick: foreground calls of pick_book_and_fetch.  Chapter 151 is in   *)
(* no book, chapter 66 in two, chapter 24 (midnight) in twenty.            *)
(***************************************************************************)
PickChapters == {24, 66, 151}
PickVerses == {59}

InitPick == InitWith({NoFault} \cup Faults(FaultKinds, {1, 2, 20}, {1}, {1}))

NextPick ==
  \E t \in Translations, c \in PickChapters, v \in PickVerses,
     rotation \in 0..MaxRotation, forwards \in BOOLEAN :
    PickCall(t, c, v, rotation, forwards)

SpecPick == InitPick /\ [][NextPick]_vars

(***************************************************************************)
(* SpecDownload: one call of start_bulk_download and the download it       *)
(* starts, for every list of at most MaxTranslations translations, under a *)
(* network that works, or fails from some chapter and verse on.            *)
(***************************************************************************)
TranslationLists ==
  UNION {[1..n -> Translations] : n \in 0..MaxTranslations}

InitDownload ==
  InitWith({NoFault}
           \cup Faults({"empty", "urlerror", "timeout"}, {1}, {1, 2}, {1, 41}))

NextDownload ==
  \/ \E translations \in TranslationLists :
       calls = 0 /\ StartBulkDownloadCall(1, translations)
  \/ StartBulkDownloadCheck(1)
  \/ StartBulkDownloadCreate(1)
  \/ StartBulkDownloadStart(1)
  \/ \E i \in 1..MaxThreads :
       DownloadBegin(i) \/ DownloadFetch(i) \/ DownloadFinish(i)

SpecDownload == InitDownload /\ [][NextDownload]_vars

(***************************************************************************)
(* SpecBulk: two callers of one BibleVerse instance, whose calls of        *)
(* start_bulk_download and of generate_image interleave statement by       *)
(* statement with each other and with the download threads.  The network   *)
(* times out from the first or from the third verse on, so that a download *)
(* ends after at most three fetches.                                       *)
(***************************************************************************)
BulkLists == {<<>>, <<"KJV">>}

DownloadSettings ==
  {[is_str |-> TRUE, str |-> str, list |-> <<>>] : str \in {"", "KJV"}}
    \cup {[is_str |-> FALSE, str |-> "", list |-> list] : list \in BulkLists}

InitBulk == InitWith(Faults({"timeout"}, {1}, {1}, {1, 3}))

NextBulk ==
  \/ \E c \in Callers :
       \/ \E translations \in BulkLists :
            StartBulkDownloadCall(c, translations)
       \/ \E triggerDownload \in {"yes", "no"},
             downloadTranslations \in DownloadSettings :
            GenerateImageCall(c, triggerDownload, downloadTranslations)
       \/ StartBulkDownloadCheck(c)
       \/ StartBulkDownloadCreate(c)
       \/ StartBulkDownloadStart(c)
       \/ GenerateImageBody(c, 12, 1, FALSE, "none", "KJV", 0, TRUE)
  \/ \E i \in 1..MaxThreads :
       DownloadBegin(i) \/ DownloadFetch(i) \/ DownloadFinish(i)

SpecBulk == InitBulk /\ [][NextBulk]_vars

(***************************************************************************)
(* SpecTime: one call of generate_image at every time of day, under every  *)
(* DST override, with a network that works.                                *)
(***************************************************************************)
InitTime == InitWith({NoFault})

NextTime ==
  \/ calls = 0 /\ GenerateImageCall(1, "no", [is_str |-> TRUE, str |-> "",
                                               list |-> <<>>])
  \/ \E hour \in 0..23, minute \in 0..59, is_dst \in BOOLEAN,
        dst_override \in {"none", "always_dst", "never_dst"} :
       GenerateImageBody(1, hour, minute, is_dst, dst_override, "KJV", 0, TRUE)

SpecTime == InitTime /\ [][NextTime]_vars

(***************************************************************************)
(* SpecWrap: one call of wrap_text, of every text of at most MaxTextLen    *)
(* characters and for every max_width up to MaxWidth.                      *)
(***************************************************************************)
Texts == UNION {[1..n -> Alphabet] : n \in 0..MaxTextLen}

InitWrap == InitWith({NoFault})

NextWrap ==
  \E text \in Texts, max_width \in 0..MaxWidth :
    ~wrapped.called /\ WrapTextCall(text, max_width)

SpecWrap == InitWrap /\ [][NextWrap]_vars

(***************************************************************************)
(* SpecCache: generate_image fetches its verse while the thread that       *)
(* start_bulk_download started runs the first iterations of                *)
(* download_all_verses(cache, ["KJV"]), both on self.cache.                *)
(***************************************************************************)
CacheBooks == {1, 19}
CacheChapters == {1}
CacheVerses == {1, 2}

InitCache == InitWith({NoFault} \cup Faults({"urlerror"}, {19}, {1}, {1}))

NextCache ==
  \/ CacheDownloadFetch
  \/ \E translation \in Translations, book_id \in CacheBooks,
        chapter \in CacheChapters, verse \in CacheVerses :
       CachePickFetch(translation, book_id, chapter, verse)
  \/ \E p \in Users :
       \/ CacheGet(p)
       \/ CacheRequest(p)
       \/ CacheSaveLoad(p)
       \/ CacheSaveOpen(p)
       \/ \E parses \in BOOLEAN : CacheSaveDump(p, parses)

SpecCache == InitCache /\ [][NextCache]_vars

(***************************************************************************)
(* SpecImage: calls of generate_image, one after the other, at a few       *)
(* times of the day, under a network that answers every request, only      *)
(* those for Genesis, or none.                                             *)
(***************************************************************************)
ImageHours == {0, 12, 23}
ImageMinutes == {0, 1, 30}

InitImage ==
  InitWith({NoFault} \cup Faults({"urlerror", "empty"}, {1, 2}, {1}, {1}))

NextImage ==
  \/ GenerateImageCall(1, "no", [is_str |-> TRUE, str |-> "", list |-> <<>>])
  \/ \E hour \in ImageHours, minute \in ImageMinutes,
        translation \in Translations, rotation \in 0..MaxRotation,
        forwards \in BOOLEAN :
       GenerateImageBody(1, hour, minute, FALSE, "none", translation,
                         rotation, forwards)

SpecImage == InitImage /\ [][NextImage]_vars

(***************************************************************************)
(* Spec: the foreground calls of fetch_verse and pick_book_and_fetch       *)
(* together.                                                               *)
(***************************************************************************)
Init ==
  InitWith({NoFault} \cup Faults(FaultKinds, {1, 2, 20}, {1}, {1, NumVerses}))

Next == NextFetch \/ NextPick

Spec == Init /\ [][Next]_vars

(***************************************************************************)
(* Helpers of the properties.                                              *)
(***************************************************************************)
\* The ids of the books of BOOKS that have the chapter.
BooksWithChapter(chapter) ==
  {BOOKS[i][2] : i \in {j \in 1..Len(BOOKS) : BOOKS[j][3] >= chapter}}

\* The ways a request fails that the claims name: a connection error, a
\* timeout, a malformed response, a response without a text.
NetworkFailures == {"urlerror", "timeout", "badjson", "notext", "nulltext"}

(***************************************************************************)
(* C2: pick_book_and_fetch calls fetch_verse only for books of BOOKS whose *)
(* chapter count is >= chapter, each at most once; a fetched text is       *)
(* returned with the name of the book whose fetch (the last one made)      *)
(* produced it; and every chapter in 1..24 has a candidate book.           *)
(***************************************************************************)
C2_PickTriesCandidatesOnce ==
  /\ \A i \in DOMAIN picked.tried :
        picked.tried[i] \in BooksWithChapter(picked.chapter)
  /\ \A i, j \in DOMAIN picked.tried :
        i # j => picked.tried[i] # picked.tried[j]
  /\ picked.ret \notin {None, Raised, DefaultVerse} =>
        /\ picked.tried # <<>>
        /\ \E i \in 1..Len(BOOKS) :
              /\ BOOKS[i][1] = picked.ret[1]
              /\ BOOKS[i][2] = picked.tried[Len(picked.tried)]
              /\ picked.ret[2] = ServerText(ApiBase(picked.translation),
                                           BOOKS[i][2], picked.chapter,
                                           picked.verse)
  /\ \A chapter \in 1..NumChapters : BooksWithChapter(chapter) # {}
  /\ picked # NoPick /\ BooksWithChapter(picked.chapter) # {} =>
        picked.tried # <<>>

\* A pick that returned a fetched text after fetches that gave none.
C2_Witness ==
  /\ picked.ret \notin {None, Raised, DefaultVerse}
  /\ Len(picked.tried) >= 2
  /\ picked.chapter = 24

(***************************************************************************)
(* C3: however the network request fails, fetch_verse returns None, does   *)
(* not raise and leaves the cache as it was; when every candidate's fetch  *)
(* fails pick_book_and_fetch returns the default verse; and what           *)
(* pick_book_and_fetch returns is always a pair with a non-empty text.     *)
(***************************************************************************)
C3_NetworkFailuresFallBack ==
  /\ fetched.net \in NetworkFailures =>
        /\ fetched.ret = None
        /\ Stored(cacheFiles, fetched.translation,
                  Key(fetched.book_id, fetched.chapter, fetched.verse))
             = fetched.cached
  /\ picked # NoPick =>
        /\ picked.ret # Raised
        /\ Len(picked.ret) = 2
        /\ Truthy(picked.ret[2])
        /\ (\A i \in DOMAIN picked.nets : picked.nets[i] \in NetworkFailures)
             => picked.ret = DefaultVerse

(***************************************************************************)
(* C4: fetch_verse with a cache that holds a non-empty text under the key  *)
(* returns exactly that text and makes no network request; it makes a      *)
(* request only when the key is absent or its stored text is empty.        *)
(***************************************************************************)
C4_CacheHitMakesNoRequest ==
  fetched.use_cache =>
    /\ Truthy(fetched.cached) =>
          fetched.ret = fetched.cached /\ fetched.net = "none"
    /\ fetched.net # "none" => fetched.cached \in {None, EmptyText}

\* A fetch served from the cache.
C4_Witness ==
  /\ fetched.use_cache
  /\ Truthy(fetched.cached)
  /\ fetched.ret = fetched.cached
  /\ fetched.net = "none"

(***************************************************************************)
(* C5.  A step of fetch_verse with a cache.                                *)
(***************************************************************************)
\* The text a request obtained is stored under the key of the call, and
\* every other key of every cache file is as it was.
C5_StoredAndFramed ==
  LET f == fetched'
      key == Key(f.book_id, f.chapter, f.verse)
  IN  f.net \in {"ok", "empty"} =>
        /\ Stored(cacheFiles', f.translation, key) = f.ret
        /\ \A t \in Translations :
              /\ DOMAIN cacheFiles'[t]
                   = DOMAIN cacheFiles[t]
                       \cup (IF t = f.translation THEN {key} ELSE {})
              /\ \A k \in DOMAIN cacheFiles[t] :
                    <<t, k>> # <<f.translation, key>> =>
                      cacheFiles'[t][k] = cacheFiles[t][k]

\* A fetch of a key under which an earlier fetch stored a text of the given
\* kind returns that text from the cache, with no request and no write.
C5_LaterFromCache(kinds) ==
  LET f == fetched'
      key == Key(f.book_id, f.chapter, f.verse)
      before == Stored(cacheFiles, f.translation, key)
  IN  before # None /\ (before = EmptyText) \in kinds =>
        /\ f.ret = before
        /\ f.net = "none"
        /\ cacheFiles' = cacheFiles

(***************************************************************************)
(* C5 as claimed: after fetch_verse with a cache obtains a text from the   *)
(* network, the text is stored under the key of that translation's cache,  *)
(* every other key and cache is unchanged, and a later fetch_verse with    *)
(* the same arguments returns the same text from the cache.                *)
(***************************************************************************)
C5_AsClaimed ==
  [][calls' = calls + 1 /\ fetched'.use_cache =>
       C5_StoredAndFramed /\ C5_LaterFromCache({TRUE, FALSE})]_vars

(***************************************************************************)
(* C5 as amended: ... and, when the text obtained is not empty, a later    *)
(* fetch_verse with the same arguments returns it from the cache (an empty *)
(* text is stored too, but the next fetch asks the network again).         *)
(***************************************************************************)
C5_StoredThenServedFromCache ==
  [][calls' = calls + 1 /\ fetched'.use_cache =>
       C5_StoredAndFramed /\ C5_LaterFromCache({FALSE})]_vars

\* A second fetch that the text stored by the first one served, with
\* another key in the same cache file.
C5_Witness ==
  /\ calls = 2
  /\ fetched.use_cache
  /\ fetched.net = "none"
  /\ Truthy(fetched.ret)
  /\ Stored(cacheFiles, fetched.translation,
            Key(fetched.book_id, fetched.chapter, fetched.verse)) = fetched.ret

(***************************************************************************)
(* Helpers of the properties of a download.                                *)
(***************************************************************************)
PerTranslation == NumChapters * NumVerses

\* The number, from 1, of the iteration (ti, chapter, verse) in
\* translation-major, then chapter, then verse order.
Position(ti, chapter, verse) ==
  (ti - 1) * PerTranslation + (chapter - 1) * NumVerses + verse

\* The (translation, chapter, verse) at a position of that order.
Expected(translations, position) ==
  <<translations[((position - 1) \div PerTranslation) + 1],
    (((position - 1) % PerTranslation) \div NumVerses) + 1,
    ((position - 1) % NumVerses) + 1>>

IsTerminal(entry) == entry.status \in {"completed", "error"}

Completed == statusFile.status = "completed"

(***************************************************************************)
(* C7: a run of download_all_verses that no exception aborts has fetched,  *)
(* when it is about to run iteration (translation, chapter, verse), every  *)
(* earlier combination of the translation-major, then chapter, then verse  *)
(* order exactly once and nothing else, the latest fetch being the one     *)
(* just before it; when it is past the loops it has made                   *)
(* 24 * 60 * (number of translations) fetches.                             *)
(***************************************************************************)
C7_FetchesGridInOrder ==
  \A i \in DOMAIN threads :
    LET th == threads[i]
        n == Len(th.translations)
        d == th.downloaded_verses
    IN  /\ th.pc = "loop" =>
              /\ th.ti \in 1..n
              /\ th.chapter \in 1..24
              /\ th.verse \in 1..60
              /\ d = Position(th.ti, th.chapter, th.verse) - 1
        /\ th.pc = "finish" \/ (th.pc = "done" /\ Completed) =>
              d = 24 * 60 * n
        /\ (th.pc \in {"loop", "finish"} \/ Completed) /\ d > 0 =>
              <<fetched.translation, fetched.chapter, fetched.verse>>
                = Expected(th.translations, d)

\* A download of two translations that ran to its end.
C7_Witness ==
  /\ Len(threads) = 1
  /\ threads[1].pc = "done"
  /\ Completed
  /\ Len(threads[1].translations) = 2
  /\ threads[1].downloaded_verses = 2880

(***************************************************************************)
(* C8: whenever the download status is "completed", every chapter 1..24    *)
(* and verse 1..59 has a verse text in the cache of each downloaded        *)
(* translation (under the key of some book that has the chapter).          *)
(***************************************************************************)
C8_CompletedMeansCached ==
  Completed =>
    \A i \in DOMAIN threads :
      threads[i].pc = "done" =>
        \A ti \in DOMAIN threads[i].translations :
          \A chapter \in 1..24, verse \in 1..59 :
            \E book_id \in BooksWithChapter(chapter) :
              Truthy(Stored(cacheFiles, threads[i].translations[ti],
                            Key(book_id, chapter, verse)))

(***************************************************************************)
(* C9: the statuses a run of download_all_verses writes start with         *)
(* "downloading" at progress 0; a terminal status ("completed" at 100 or   *)
(* "error" at 0) is written exactly when the run ends, once, and is the    *)
(* last one written; every progress written is an integer in 0..100, and   *)
(* the progress values before the terminal status never decrease.          *)
(***************************************************************************)
C9_StatusSequence ==
  LET n == Len(statusLog)
  IN  /\ n > 0 => statusLog[1].status = "downloading"
                    /\ statusLog[1].progress = 0
      /\ \A k \in 1..n :
            /\ statusLog[k].progress \in 0..100
            /\ statusLog[k].status \in {"downloading", "completed", "error"}
            /\ statusLog[k].status = "completed" => statusLog[k].progress = 100
            /\ statusLog[k].status = "error" => statusLog[k].progress = 0
            /\ IsTerminal(statusLog[k]) => k = n
            /\ k < n /\ ~IsTerminal(statusLog[k + 1]) =>
                  statusLog[k].progress <= statusLog[k + 1].progress
      /\ \A i \in DOMAIN threads :
            /\ is_alive(threads[i]) /\ threads[i].pc # "start" =>
                  n > 0 /\ ~IsTerminal(statusLog[n])
            /\ threads[i].pc = "done" => n > 0 /\ IsTerminal(statusLog[n])
            /\ threads[i].pc \in {"created", "start"} => n = 0
      /\ statusFile = IF n = 0 THEN not_started ELSE statusLog[n]

\* A run that wrote a progress above 0 and then ended in "error".
C9_Witness ==
  /\ Len(statusLog) >= 3
  /\ statusLog[Len(statusLog)].status = "error"
  /\ statusLog[Len(statusLog) - 1].progress > 0

(***************************************************************************)
(* C1: in generate_image the chapter is the hour of the (DST-adjusted)     *)
(* local time, except that hour 0 gives chapter 24, and the verse is the   *)
(* minute, except that minute 0 gives verse 1; the chapter is in 1..24 and *)
(* the verse in 1..59, and they are what pick_book_and_fetch is given.     *)
(***************************************************************************)
C1_TimeSelectsChapterAndVerse ==
  image.drawn \/ image.raised =>
    /\ image.now_hour \in 0..23
    /\ image.now_hour =
         (image.hour
            + (IF image.dst_override = "always_dst" /\ ~image.is_dst THEN 1
               ELSE IF image.dst_override = "never_dst" /\ image.is_dst
               THEN 23 ELSE 0)) % 24
    /\ image.now_minute = image.minute
    /\ image.now_hour # 0 => image.chapter = image.now_hour
    /\ image.now_hour = 0 => image.chapter = 24
    /\ image.now_minute # 0 => image.verse = image.now_minute
    /\ image.now_minute = 0 => image.verse = 1
    /\ image.chapter \in 1..24
    /\ image.verse \in 1..59
    /\ picked.chapter = image.chapter
    /\ picked.verse = image.verse

\* An image drawn at 23:00 with the clock moved forward to midnight.
C1_Witness ==
  /\ image.drawn
  /\ image.hour = 23
  /\ image.now_hour = 0
  /\ image.minute = 0
  /\ image.chapter = 24
  /\ image.verse = 1

(***************************************************************************)
(* C6: at most one bulk-download thread of a BibleVerse instance is alive  *)
(* at any time.                                                            *)
(***************************************************************************)
C6_AtMostOneDownloadThread ==
  Cardinality({i \in DOMAIN threads : is_alive(threads[i])}) <= 1

(***************************************************************************)
(* C10: the lines wrap_text returns hold, in order, exactly the            *)
(* whitespace-separated words of the text, joined by single spaces; no     *)
(* line is empty; and every line of two or more words has a measured       *)
(* width <= max_width.                                                     *)
(***************************************************************************)
RECURSIVE WordsOfLines(_)
WordsOfLines(lines) ==
  IF lines = <<>> THEN <<>>
  ELSE split(Head(lines)) \o WordsOfLines(Tail(lines))

RECURSIVE JoinWords(_)
JoinWords(words) ==
  IF words = <<>> THEN <<>>
  ELSE IF Len(words) = 1 THEN words[1]
  ELSE words[1] \o <<" ">> \o JoinWords(Tail(words))

C10_WrapKeepsWordsAndFits ==
  wrapped.called =>
    /\ WordsOfLines(wrapped.lines) = split(wrapped.text)
    /\ \A k \in DOMAIN wrapped.lines :
          LET line == wrapped.lines[k]
          IN  /\ line # <<>>
              /\ line = JoinWords(split(line))
              /\ Len(split(line)) >= 2 =>
                    textwidth(line) <= wrapped.max_width

\* A wrap into two lines, the first of two words, the second a single word
\* wider than max_width.
C10_Witness ==
  /\ wrapped.called
  /\ Len(wrapped.lines) = 2
  /\ Len(split(wrapped.lines[1])) = 2
  /\ textwidth(wrapped.lines[2]) > wrapped.max_width


(***************************************************************************)
(* C11: while the bulk download and generate_image use the same            *)
(* BibleCache, no saved verse is lost: once both have finished, every key  *)
(* either of them saved is in its translation's file with the text saved.  *)
(***************************************************************************)
C11_NoSavedVerseLost ==
  (\A p \in Users : Finished(p)) =>
    \A p \in Users :
      \A s \in writers[p].saved :
        Stored(cacheFiles, s[1], s[2]) = s[3]

\* The book, chapter and verse a text is the text of: the server's text of
\* a verse is that verse's, and the default text is Psalm 23:1 (as the
\* warnings of lines 212 and 219 say).
BookName(book_id) ==
  BOOKS[CHOOSE i \in 1..Len(BOOKS) : BOOKS[i][2] = book_id][1]

VerseOfText(text) ==
  IF text = DefaultText
  THEN <<DefaultVerse[1], 23, 1>>
  ELSE <<BookName(text[2]), text[3], text[4]>>

(***************************************************************************)
(* C12: in every image generate_image draws, the reference                 *)
(* "{book} {chapter}:{verse}" names the book, chapter and verse of the     *)
(* text drawn with it, the default verse of pick_book_and_fetch included.  *)
(***************************************************************************)
C12_ReferenceNamesTheText ==
  image.drawn => image.reference = VerseOfText(image.text)

====
